---- MODULE Spec2Model ----
(***************************************************************************)
(* PromptLane SDK: the resource dispatchers (Projects, Prompts, Teams,     *)
(* Users, Activities), the database backend they read and write, and the   *)
(* HTTP backend's response handling.                                       *)
(*                                                                         *)
(* A state is one client: the connections its dispatchers hold, the rows   *)
(* of the database tables, the identifiers uuid4 has handed out, and the   *)
(* record of the last dispatcher call (what was asked, which backend       *)
(* methods it invoked, how it ended).                                      *)
(***************************************************************************)
EXTENDS Integers, Sequences, FiniteSets, TLC

\* ------------------------------------------------------------------ bounds

\* uuid4 hands out the identifiers 1..MaxId, each once.
MaxId == 3

\* ----------------------------------------------------------------- strings

\* str(uuid.UUID): the canonical lower-case text of identifier i.
CanonText == [i \in 1..(MaxId + 1) |-> "uuid-" \o ToString(i)]
Canon(i) == CanonText[i]

\* Another text uuid.UUID() accepts for the same identifier (upper-case hex
\* digits, braces, no hyphens): it parses, and is not str() of it.
UpperText == [i \in 1..(MaxId + 1) |-> "UUID-" \o ToString(i)]
Upper(i) == UpperText[i]

\* uuid.UUID(s): the identifier s denotes, 0 when s is not well formed
\* (the constructor raises ValueError).
WellFormed ==
  {<<CanonText[i], i>> : i \in 1..(MaxId + 1)} \cup
  {<<UpperText[i], i>> : i \in 1..(MaxId + 1)}
ParseUUID(s) ==
  IF \E w \in WellFormed : w[1] = s
  THEN (CHOOSE w \in WellFormed : w[1] = s)[2]
  ELSE 0

\* ResourceBase._get_id_from_arg: str() of a uuid.UUID object or of a string.
GetIdFromArg(a) == IF a.t = "uuid" THEN Canon(a.u) ELSE a.s

\* What callers pass as id_or_key: strings and uuid.UUID objects.
StrArg(s) == [t |-> "str", s |-> s, u |-> 0]
UuidArg(i) == [t |-> "uuid", s |-> "", u |-> i]

\* ------------------------------------------------------------------ tables

Standard == {"projects", "prompts", "activities"}
WriteThru == {"teams", "users"}
Resources == Standard \cup WriteThru

\* The models with a `key` field (Project, Prompt); Team, User and Activity
\* have none, and their tables no key column.
HasKeyColumn(res) == res \in {"projects", "prompts"}

\* A row: id, key ("" without a key column), parent_id (0 is NULL), ref (the
\* project_id of a prompt, the user_id of an activity, the team_id of a
\* project; 0 in the other tables) and val, standing for the fields an
\* update model can set (name, description, ...).
NoRow == [id |-> 0, key |-> "", parent_id |-> 0, ref |-> 0, val |-> 0]

\* The update models declare their fields Optional: a caller may pass None,
\* and exclude_unset keeps it, so the UPDATE sets the column to NULL.
Null == -1

\* DatabaseConnection._row_to_model: model_class(**row) raises a pydantic
\* ValidationError on a row whose required field (name, ...) is NULL.
Converts(r) == r.val # Null
RowsToModels(rows) ==
  IF \A r \in rows : Converts(r) THEN "ok" ELSE "PydanticValidationError"
MkRow(id, key, parent, ref, val) ==
  [id |-> id, key |-> key, parent_id |-> parent, ref |-> ref, val |-> val]

\* --------------------------------------------------------- database backend

\* Mutant: a key match is accepted beside the identifier match.
ByIdWhenUUID_OrKey(s, r) ==
  (ParseUUID(s) # 0 /\ r.id = ParseUUID(s)) \/ r.key = s

\* The WHERE condition of DatabaseConnection.get / update / delete:
\* table.c.id == uuid_obj when uuid.UUID(id_or_key) succeeds, and
\* table.c.key == id_or_key in the except ValueError branch.
ByIdWhenUUID(s, r) ==
  IF ParseUUID(s) # 0 THEN r.id = ParseUUID(s) ELSE r.key = s
Condition(s, r) == ByIdWhenUUID(s, r)

\* table.c.key raises AttributeError on a table without that column.
ConditionRaises(res, s) == ParseUUID(s) = 0 /\ ~HasKeyColumn(res)

Selected(rows, s) == {r \in rows : Condition(s, r)}

\* DatabaseConnection.list: every filter naming a column narrows the query;
\* a keyword that names no column (force_api) is skipped by hasattr.
\* f is [parent_id, ref], 0 meaning the filter is not passed.
DbList(rows, f) ==
  {r \in rows : /\ (f.parent_id # 0 => r.parent_id = f.parent_id)
                /\ (f.ref # 0 => r.ref = f.ref)}
NoFilter == [parent_id |-> 0, ref |-> 0]

\* DatabaseConnection.get: fetchone() of the selected rows, None when there
\* are none. Which row fetchone returns of several is the database's choice.
DbGetResults(rows, s) ==
  IF Selected(rows, s) = {} THEN {NoRow} ELSE Selected(rows, s)

\* Mutant: the table is replaced by the rows the UPDATE changed.
DbUpdateRows_Replace(rows, s, val) ==
  {[r EXCEPT !.val = val] : r \in Selected(rows, s)}

\* DatabaseConnection.update: UPDATE ... WHERE condition, on every selected row.
DbUpdateRows(rows, s, val) ==
  {IF Condition(s, r) THEN [r EXCEPT !.val = val] ELSE r : r \in rows}

\* Mutant: the row is read before the UPDATE.
UpdatedRow_Stale(rows, s, val) == DbGetResults(rows, s)

\* DatabaseConnection.update: inside the transaction, after the UPDATE, the
\* row is read back by the same condition.
UpdatedRow(rows, s, val) == DbGetResults(DbUpdateRows(rows, s, val), s)

\* Mutant: the identifier is picked from the identifiers handed out before.
NewId_Reused(next) == IF next > 1 THEN next - 1 ELSE next

\* DatabaseConnection.create: values["id"] = str(uuid.uuid4()), an identifier
\* no earlier call was given.
NewId(next) == next

\* DatabaseConnection.delete: DELETE ... WHERE condition.
DbDeleteRows(rows, s) == rows \ Selected(rows, s)

\* ------------------------------------------------------------- HTTP backend

ApiVersion == "v1"
BaseUrl == "https://host"

\* APIConnection._build_url: path.lstrip("/") drops leading empty segments;
\* the version is prefixed unless the path starts with "<version>/".
RECURSIVE LStrip(_)
LStrip(path) ==
  IF path # <<>> /\ Head(path) = "" THEN LStrip(Tail(path)) ELSE path
BuildUrl(path) ==
  LET p == LStrip(path) IN
  IF Len(p) > 1 /\ Head(p) = ApiVersion
  THEN <<BaseUrl>> \o p
  ELSE <<BaseUrl, ApiVersion>> \o p

\* What session.request hands back: a status and a body. Status 0 stands for
\* no response at all (the session raised a requests exception).
\* The body: a JSON object with a "detail" or "message" member, a JSON
\* object without one, a JSON array, another JSON value (string, number,
\* null), text that is not JSON, or nothing.
Responses ==
  {<<0, "empty">>, <<200, "object">>, <<200, "array">>, <<204, "empty">>,
   <<304, "empty">>, <<401, "object_detail">>, <<403, "text">>,
   <<404, "object">>, <<404, "array">>, <<422, "object_detail">>,
   <<429, "empty">>, <<500, "text">>}
IsJson(body) == body \in {"object_detail", "object", "array", "scalar"}
IsJsonObject(body) == body \in {"object_detail", "object"}

\* response.raise_for_status(): HTTPError for 4xx and 5xx.
RaisesForStatus(status) == status >= 400 /\ status < 600

\* The status branch of APIConnection._handle_response.
ErrorKind(status) ==
  IF status = 401 \/ status = 403 THEN "AuthenticationError"
  ELSE IF status = 404 THEN "NotFoundError"
  ELSE IF status = 422 THEN "ValidationError"
  ELSE IF status = 429 THEN "RateLimitError"
  ELSE "APIError"

\* error_detail of _handle_response: the body's detail or message, the
\* response text when the body is not JSON, else the branch's default text.
ErrorDetail(body) ==
  IF body = "object_detail" THEN "detail"
  ELSE IF body = "text" THEN "text"
  ELSE "default"

NoErr == [kind |-> "ok", status |-> 0, detail |-> ""]
Err(kind) == [kind |-> kind, status |-> 0, detail |-> ""]

\* APIConnection._handle_response. expects is the expected_model_class:
\* "model" (a pydantic model), "Dict" (typing.Dict) or "none".
\* The result is [err, ret]: err.kind "ok" and ret the shape returned, or the
\* exception raised.
HandleResponse(status, body, expects) ==
  IF RaisesForStatus(status) THEN
    IF IsJson(body) /\ ~IsJsonObject(body)
    THEN \* error_data.get on a list, str, number or None
         [err |-> Err("AttributeError"), ret |-> "raise"]
    ELSE [err |-> [kind |-> ErrorKind(status),
                   status |-> IF ErrorKind(status) = "APIError" THEN status ELSE 0,
                   detail |-> ErrorDetail(body)],
          ret |-> "raise"]
  ELSE IF ~IsJson(body) THEN \* response.json() on a body that is not JSON
    [err |-> Err("JSONDecodeError"), ret |-> "raise"]
  ELSE IF expects = "Dict" /\ body \in {"array", "object_detail", "object"}
    THEN \* typing.Dict(**data): typing.Dict cannot be instantiated
         [err |-> Err("TypeError"), ret |-> "raise"]
  ELSE IF expects # "none" /\ body = "array" THEN [err |-> NoErr, ret |-> "list"]
  ELSE IF expects # "none" /\ IsJsonObject(body) THEN [err |-> NoErr, ret |-> "entity"]
  ELSE [err |-> NoErr, ret |-> "raw"]

\* APIConnection.__init__: the Retry the session's adapters are mounted with.
MaxRetries == 3
StatusForcelist == {429, 500, 502, 503, 504}
AllowedMethods == {"GET", "POST", "PUT", "DELETE", "PATCH"}

\* urllib3's Retry.is_retry: the answer calls for another attempt.
IsRetry(method, status) ==
  method \in AllowedMethods /\ status \in StatusForcelist

\* What the session raises when an attempt calls for a retry and none is
\* left: urllib3's MaxRetryError, which requests raises as RetryError for an
\* answered attempt and as its ConnectionError for an unanswered one.
Exhausted(status) ==
  IF status = 0 THEN Err("RequestException") ELSE Err("RetryError")

\* APIConnection.request: session.request, then _handle_response; a requests
\* exception of the session propagates. status and body are those of the
\* session's last attempt: an answer of the forcelist is one the retries
\* ended on, and the session raises instead of returning it (every method
\* the backend sends is an allowed one).
Request(status, body, expects) ==
  IF status = 0 \/ status \in StatusForcelist
  THEN [err |-> Exhausted(status), ret |-> "raise"]
  ELSE HandleResponse(status, body, expects)

\* One request as the dispatchers' call records keep it. params is the
\* force_api keyword as forwarded ("absent" when it is not), expects the
\* model class handed to request().
ApiCall(method, path, params, expects, status, body) ==
  [method |-> method, path |-> path, params |-> params, expects |-> expects,
   status |-> status, body |-> body]

\* ------------------------------------------------------------------- state

VARIABLES
  hasDb,       \* the dispatchers hold a DatabaseConnection (self.db)
  hasApi,      \* the dispatchers hold an APIConnection (self.api)
  mixed_mode,  \* ResourceBase.mixed_mode
  store,       \* the database: resource table -> its rows
  members,     \* the team_members table: <<team id, user id>>
  nextId,      \* the next identifier uuid4 hands out
  last,        \* the last dispatcher call and how it ended
  client,      \* the PromptLaneClient: how it was constructed, what it holds
  dbConn,      \* the DatabaseConnection: "none", "open" or "closed"
  apiConn      \* the APIConnection's session: "none", "open" or "closed"

vars ==
  <<hasDb, hasApi, mixed_mode, store, members, nextId, last,
    client, dbConn, apiConn>>

\* A database method a dispatcher invoked.
DbCall(fn, table, arg, params) ==
  [fn |-> fn, table |-> table, arg |-> arg, params |-> params]

\* The record of a dispatcher call: the dispatcher (res), the method (op),
\* the normalised id_or_key (arg), the force_api keyword ("absent", "false",
\* "true"), whether a request model was constructed (built), the backend
\* calls made (db, api), the exception raised (err.kind "ok" when none), the
\* shape of the value returned (ret) and the rows of it that came from the
\* database (rows).
Call(res, op, arg, force, built, db, api, err, ret, rows) ==
  [res |-> res, op |-> op, arg |-> arg, force |-> force, built |-> built,
   db |-> db, api |-> api, err |-> err, ret |-> ret, rows |-> rows]

NoCall == Call("", "init", "", "absent", FALSE, <<>>, <<>>, NoErr, "none", {})

\* The rows a database holds before the client connects.
InitStore ==
  [res \in Resources |->
     IF res = "projects" THEN {MkRow(1, "alpha", 0, 1, 0)}
     ELSE IF res = "prompts" THEN {MkRow(1, "alpha", 0, 1, 0)}
     ELSE IF res = "activities" THEN {MkRow(1, "", 0, 1, 0)}
     ELSE {MkRow(1, "", 0, 0, 0)}]
InitMembers == {<<1, 1>>}

\* Mutant: one connection is enough for mixed mode.
MixedMode_Either(db, api) == db \/ api

\* ResourceBase.__init__: mixed_mode = bool(db and api).
MixedMode(db, api) == db /\ api

\* ------------------------------------------------------------ client facade

ConnectionTypes == {"api", "database", "mixed"}
NeedsApi(type) == type \in {"api", "mixed"}
NeedsDb(type) == type \in {"database", "mixed"}

\* The keyword arguments of PromptLaneClient and the environment variables
\* PROMPTLANE_API_URL, PROMPTLANE_API_KEY and PROMPTLANE_DB_CONNECTION; ""
\* stands for a value that is None, empty or unset.
Config(url, key, db) == [base_url |-> url, api_key |-> key, db |-> db]
NoConfig == Config("", "", "")

\* Mutant: the environment's value wins over the argument.
OrEnv_EnvFirst(arg, env) == IF env # "" THEN env ELSE arg

\* `if not base_url: base_url = os.environ.get(...)`: the argument when it is
\* given (and not empty), else the environment's value.
OrEnv(arg, env) == IF arg # "" THEN arg ELSE env
Effective(args, env) ==
  Config(OrEnv(args.base_url, env.base_url), OrEnv(args.api_key, env.api_key),
         OrEnv(args.db, env.db))

\* The `if not base_url or not api_key` and `if not db_connection_string`
\* checks of __init__.
ApiConfigMissing(cfg) == cfg.base_url = "" \/ cfg.api_key = ""
DbConfigMissing(cfg) == cfg.db = ""

\* DatabaseConnection.__init__: create_engine and metadata.reflect raise on
\* a connection string that names no database.
DbOpens(s) == s # "garbage"

\* The client object: state "new" before __init__ ran, "ready" after it
\* returned, "failed" after it raised, "closed" after close(); the
\* arguments and environment it was constructed from; the configuration its
\* connections were given ("" for a connection it does not hold); the
\* dispatchers _init_resources created.
Client(state, type, args, env, cfg, resources) ==
  [state |-> state, connection_type |-> type, args |-> args, env |-> env,
   cfg |-> cfg, resources |-> resources]
NoClient(env) == Client("new", "", NoConfig, env, NoConfig, {})

\* What the connections of a client of the given type are handed.
Held(type, cfg) ==
  Config(IF NeedsApi(type) THEN cfg.base_url ELSE "",
         IF NeedsApi(type) THEN cfg.api_key ELSE "",
         IF NeedsDb(type) THEN cfg.db ELSE "")

\* A client constructed with explicit arguments.
ReadyClient(mode) ==
  Client("ready", mode, Config("https://host", "key", "db://arg"), NoConfig,
         Held(mode, Config("https://host", "key", "db://arg")), Resources)

\* PromptLaneClient.__init__ and _init_resources: the three connection types
\* give every dispatcher the API connection, the database connection, or both.
Init ==
  /\ \E mode \in ConnectionTypes :
       /\ hasDb = NeedsDb(mode)
       /\ hasApi = NeedsApi(mode)
       /\ mixed_mode = MixedMode(NeedsDb(mode), NeedsApi(mode))
       /\ client = ReadyClient(mode)
       /\ dbConn = (IF NeedsDb(mode) THEN "open" ELSE "none")
       /\ apiConn = (IF NeedsApi(mode) THEN "open" ELSE "none")
  /\ store = InitStore
  /\ members = InitMembers
  /\ nextId = MaxId + 1
  /\ last = NoCall

\* ------------------------------------------------------------------ inputs

Force == {"absent", "false", "true"}
\* id_or_key arguments: the canonical text of an identifier, another
\* well-formed text of it, a key, and a uuid.UUID object.
IdArgs == {StrArg(Canon(1)), StrArg(Upper(1)), StrArg("alpha"), UuidArg(1)}
\* Keys a caller gives a new project or prompt: a plain key, and a key that
\* has the text of an identifier.
NewKeys == {"alpha", Canon(2)}
\* The key a caller gives a new version: its parent's.
VersionKeys == {"alpha"}
\* parent_id a caller passes to PromptCreate (0: none).
ParentArgs == {0, 1}

\* ---------------------------------------------------------------- dispatch

\* Mutant: force_api honoured whatever the mode.
ReadsFromDb_ForceAlways(db, mixed, force) == db /\ force # "true"

\* ResourceMixin.list / get: self.db and not (self.mixed_mode and force_api).
ReadsFromDb(db, mixed, force) == db /\ ~(mixed /\ force = "true")

\* ResourceMixin.create / update / delete and Prompts.create_version take
\* the API when self.mixed_mode or not self.db.
WritesToApi(db, mixed) == mixed \/ ~db

\* The read extensions (get_prompts, get_versions, get_members, get_teams,
\* list_for_user): self.db and not self.mixed_mode.
ExtReadsFromDb(db, mixed) == db /\ ~mixed

\* Calling a method on a connection that is None.
NoneType == Err("AttributeError")

\* A call that ended without touching the store.
Ends(call) ==
  /\ last' = call
  /\ UNCHANGED <<hasDb, hasApi, mixed_mode, store, members, nextId,
                 client, dbConn, apiConn>>

\* Mutant: an exception the wrapper has no clause of its own for is dropped.
WrapErr_Swallow(err) ==
  IF err.kind \in {"ok", "AuthenticationError", "ValidationError", "NotFoundError"}
  THEN err
  ELSE NoErr

\* api_write_only's except clauses: authentication, validation and not-found
\* failures are raised again as their own kind; every other APIError and
\* every other exception leaves as APIError.
WrapErr(err) ==
  IF err.kind \in {"ok", "AuthenticationError", "ValidationError", "NotFoundError"}
  THEN err
  ELSE [err EXCEPT !.kind = "APIError"]

\* The except clauses of Teams.get_members and Users.get_teams: NotFoundError
\* is raised again, every other exception leaves as APIError.
ReadErr(err) ==
  IF err.kind \in {"ok", "NotFoundError"} THEN err
  ELSE [err EXCEPT !.kind = "APIError"]

Tagged(tag, err) ==
  IF tag = "write" THEN WrapErr(err)
  ELSE IF tag = "read" THEN ReadErr(err)
  ELSE err

\* One API request of a dispatcher method and the call record it leaves.
\* tag names the except clauses around it ("write", "read", "none"); okRet
\* is what the method returns when the request succeeds ("" for the value
\* _handle_response built).
ViaApi(res, op, arg, force, built, tag, method, path, params, expects, okRet) ==
  IF ~hasApi
  THEN Ends(Call(res, op, arg, force, built, <<>>, <<>>,
                 Tagged(tag, NoneType), "raise", {}))
  ELSE \E resp \in Responses :
         LET status == resp[1]
             body == resp[2]
             r == Request(status, body, expects) IN
         /\ Ends(Call(res, op, arg, force, built, <<>>,
                      <<ApiCall(method, path, params, expects, status, body)>>,
                      Tagged(tag, r.err),
                      IF r.err.kind = "ok" /\ okRet # "" THEN okRet ELSE r.ret,
                      {}))

\* A database method called on a connection that is None.
DbMissing(res, op, arg, force, built, tag) ==
  Ends(Call(res, op, arg, force, built, <<>>, <<>>,
            Tagged(tag, NoneType), "raise", {}))

\* ------------------------------------------------- the standard dispatchers

\* The record of a call that ends by returning db.list's result: the rows as
\* models, or the ValidationError of the row that is none.
DbListed(res, op, arg, force, calls, rows) ==
  Call(res, op, arg, force, FALSE, calls, <<>>, Err(RowsToModels(rows)),
       IF RowsToModels(rows) = "ok" THEN "list" ELSE "raise",
       IF RowsToModels(rows) = "ok" THEN rows ELSE {})

\* ResourceMixin.list (Projects, Prompts, Activities). The keywords,
\* force_api among them, are forwarded to the backend's list.
List(res, force) ==
  IF ReadsFromDb(hasDb, mixed_mode, force) THEN
    IF ~hasDb THEN DbMissing(res, "list", "", force, FALSE, "none")
    ELSE Ends(DbListed(res, "list", "", force,
                       <<DbCall("list", res, "", force)>>,
                       DbList(store[res], NoFilter)))
  ELSE ViaApi(res, "list", "", force, FALSE, "none",
              "GET", <<res>>, force, "model", "")

\* ResourceMixin.get.
Get(res, a, force) ==
  LET s == GetIdFromArg(a) IN
  IF ReadsFromDb(hasDb, mixed_mode, force) THEN
    IF ~hasDb THEN DbMissing(res, "get", s, force, FALSE, "none")
    ELSE IF ConditionRaises(res, s) THEN
      Ends(Call(res, "get", s, force, FALSE,
                <<DbCall("get", res, s, "absent")>>, <<>>,
                Err("AttributeError"), "raise", {}))
    ELSE \E r \in DbGetResults(store[res], s) :
      Ends(Call(res, "get", s, force, FALSE,
                <<DbCall("get", res, s, "absent")>>, <<>>,
                Err(RowsToModels({r})),
                IF r = NoRow THEN "None"
                ELSE IF Converts(r) THEN "entity" ELSE "raise",
                IF r = NoRow \/ ~Converts(r) THEN {} ELSE {r}))
  ELSE ViaApi(res, "get", s, force, FALSE, "none",
              "GET", <<res, s>>, "absent", "model", "")

\* Activities sets neither create_model_class nor update_model_class: the
\* class attribute stays None, and calling it raises TypeError.
HasWriteModels(res) == res # "activities"

\* DatabaseConnection.create: the row gets a uuid4 identifier (the create
\* models have no id field), is inserted, and is read back by that
\* identifier inside the transaction.
DbCreate(res, op, arg, calls, key, parent) ==
  LET new == MkRow(NewId(nextId), IF HasKeyColumn(res) THEN key ELSE "", parent,
                   IF res \in Standard THEN 1 ELSE 0, 0) IN
  /\ nextId <= MaxId
  /\ store' = [store EXCEPT ![res] = @ \cup {new}]
  /\ nextId' = nextId + 1
  /\ last' = Call(res, op, arg, "absent", TRUE,
                  calls \o <<DbCall("create", res, "", "absent")>>, <<>>,
                  NoErr, "entity", {new})
  /\ UNCHANGED <<hasDb, hasApi, mixed_mode, members, client, dbConn, apiConn>>

\* ResourceMixin.create. valid: the keywords pass the create model.
Create(res, key, parent, valid) ==
  IF ~HasWriteModels(res) THEN
    Ends(Call(res, "create", "", "absent", FALSE, <<>>, <<>>,
              Err("TypeError"), "raise", {}))
  ELSE IF ~valid THEN
    Ends(Call(res, "create", "", "absent", TRUE, <<>>, <<>>,
              Err("PydanticValidationError"), "raise", {}))
  ELSE IF WritesToApi(hasDb, mixed_mode) THEN
    ViaApi(res, "create", "", "absent", TRUE, "none",
           "POST", <<res>>, "absent", "model", "")
  ELSE IF ~hasDb THEN DbMissing(res, "create", "", "absent", TRUE, "none")
  ELSE DbCreate(res, "create", "", <<>>, key, parent)

Vals == {0, 1}
\* The values a caller may pass: None among them.
UpdateVals == Vals \cup {Null}

\* Whether the columns the update models name accept NULL is the schema's
\* matter: the tables are reflected, not declared.
Nullable(val) == IF val = Null THEN BOOLEAN ELSE {TRUE}

\* DatabaseConnection.update: the UPDATE, then fetchone() of the same
\* condition, inside one transaction; a NULL a column refuses raises
\* IntegrityError there and the transaction is rolled back. After the
\* commit, dict(None) raises TypeError when no row matched, and
\* _row_to_model raises when the row read back is no model.
DbUpdate(res, s, val) ==
  IF ConditionRaises(res, s) THEN
    Ends(Call(res, "update", s, "absent", TRUE,
              <<DbCall("update", res, s, "absent")>>, <<>>,
              Err("AttributeError"), "raise", {}))
  ELSE \E nullable \in Nullable(val) :
    IF ~nullable /\ Selected(store[res], s) # {} THEN
      Ends(Call(res, "update", s, "absent", TRUE,
                <<DbCall("update", res, s, "absent")>>, <<>>,
                Err("IntegrityError"), "raise", {}))
    ELSE
    /\ store' = [store EXCEPT ![res] = DbUpdateRows(@, s, val)]
    /\ \E r \in UpdatedRow(store[res], s, val) :
         last' = Call(res, "update", s, "absent", TRUE,
                      <<DbCall("update", res, s, "absent")>>, <<>>,
                      IF r = NoRow THEN Err("TypeError")
                      ELSE Err(RowsToModels({r})),
                      IF r = NoRow \/ ~Converts(r) THEN "raise" ELSE "entity",
                      IF r = NoRow \/ ~Converts(r) THEN {} ELSE {r})
    /\ UNCHANGED <<hasDb, hasApi, mixed_mode, members, nextId,
                   client, dbConn, apiConn>>

\* ResourceMixin.update.
Update(res, a, val, valid) ==
  LET s == GetIdFromArg(a) IN
  IF ~HasWriteModels(res) THEN
    Ends(Call(res, "update", s, "absent", FALSE, <<>>, <<>>,
              Err("TypeError"), "raise", {}))
  ELSE IF ~valid THEN
    Ends(Call(res, "update", s, "absent", TRUE, <<>>, <<>>,
              Err("PydanticValidationError"), "raise", {}))
  ELSE IF WritesToApi(hasDb, mixed_mode) THEN
    ViaApi(res, "update", s, "absent", TRUE, "none",
           "PUT", <<res, s>>, "absent", "model", "")
  ELSE IF ~hasDb THEN DbMissing(res, "update", s, "absent", TRUE, "none")
  ELSE DbUpdate(res, s, val)

\* DatabaseConnection.delete: result.rowcount > 0.
DbDelete(res, s) ==
  IF ConditionRaises(res, s) THEN
    Ends(Call(res, "delete", s, "absent", FALSE,
              <<DbCall("delete", res, s, "absent")>>, <<>>,
              Err("AttributeError"), "raise", {}))
  ELSE
    /\ store' = [store EXCEPT ![res] = DbDeleteRows(@, s)]
    /\ last' = Call(res, "delete", s, "absent", FALSE,
                    <<DbCall("delete", res, s, "absent")>>, <<>>, NoErr,
                    IF Selected(store[res], s) # {} THEN "True" ELSE "False",
                    {})
    /\ UNCHANGED <<hasDb, hasApi, mixed_mode, members, nextId,
                   client, dbConn, apiConn>>

\* ResourceMixin.delete; APIConnection.delete returns True when request()
\* raised nothing.
Delete(res, a) ==
  LET s == GetIdFromArg(a) IN
  IF WritesToApi(hasDb, mixed_mode) THEN
    ViaApi(res, "delete", s, "absent", FALSE, "none",
           "DELETE", <<res, s>>, "absent", "none", "True")
  ELSE IF ~hasDb THEN DbMissing(res, "delete", s, "absent", FALSE, "none")
  ELSE DbDelete(res, s)

\* ---------------------------------------------------- the read extensions

\* A filter value compared with a uuid column: the identifier the text
\* denotes, and no row's when it denotes none.
RefOf(s) == IF ParseUUID(s) # 0 THEN ParseUUID(s) ELSE -1

\* Projects.get_prompts.
GetPrompts(a) ==
  LET s == GetIdFromArg(a) IN
  IF ExtReadsFromDb(hasDb, mixed_mode) THEN
    Ends(DbListed("projects", "get_prompts", s, "absent",
                  <<DbCall("list", "prompts", s, "absent")>>,
                  DbList(store["prompts"], [parent_id |-> 0, ref |-> RefOf(s)])))
  ELSE ViaApi("projects", "get_prompts", s, "absent", FALSE, "none",
              "GET", <<"projects", s, "prompts">>, "absent", "model", "")

\* Prompts.get_versions: root_id = prompt.parent_id or prompt.id.
RootId(p) == IF p.parent_id # 0 THEN p.parent_id ELSE p.id

\* What ends a method that fetched a prompt it needs and got none
\* (None.id, None.parent_id) or a row that is no model.
FetchErr(p) ==
  IF p = NoRow THEN Err("AttributeError") ELSE Err(RowsToModels({p}))

\* Prompts.get_versions: the prompt is fetched (None.parent_id raises
\* AttributeError), then the prompts whose parent_id is root_id are listed.
GetVersions(a) ==
  LET s == GetIdFromArg(a) IN
  IF ExtReadsFromDb(hasDb, mixed_mode) THEN
    \E p \in DbGetResults(store["prompts"], s) :
      IF FetchErr(p) # NoErr THEN
        Ends(Call("prompts", "get_versions", s, "absent", FALSE,
                  <<DbCall("get", "prompts", s, "absent")>>, <<>>,
                  FetchErr(p), "raise", {}))
      ELSE
        Ends(DbListed("prompts", "get_versions", s, "absent",
                      <<DbCall("get", "prompts", s, "absent"),
                        DbCall("list", "prompts", Canon(RootId(p)), "absent")>>,
                      DbList(store["prompts"],
                             [parent_id |-> RootId(p), ref |-> 0])))
  ELSE ViaApi("prompts", "get_versions", s, "absent", FALSE, "none",
              "GET", <<"prompts", s, "versions">>, "absent", "model", "")

\* Activities.list_for_user: the API path carries the query itself.
ListForUser(a) ==
  LET s == GetIdFromArg(a) IN
  IF ExtReadsFromDb(hasDb, mixed_mode) THEN
    Ends(DbListed("activities", "list_for_user", s, "absent",
                  <<DbCall("list", "activities", s, "absent")>>,
                  DbList(store["activities"], [parent_id |-> 0, ref |-> RefOf(s)])))
  ELSE ViaApi("activities", "list_for_user", s, "absent", FALSE, "none",
              "GET", <<"activities?user_id=" \o s>>, "absent", "model", "")

\* DatabaseConnection.get_team_members: users joined to team_members.
DbTeamMembers(s) ==
  {u \in store["users"] : \E m \in members : m[1] = RefOf(s) /\ m[2] = u.id}

\* DatabaseConnection.get_user_teams: teams joined to team_members.
DbUserTeams(s) ==
  {t \in store["teams"] : \E m \in members : m[2] = RefOf(s) /\ m[1] = t.id}

\* Teams.get_members.
GetMembers(a) ==
  LET s == GetIdFromArg(a) IN
  IF ExtReadsFromDb(hasDb, mixed_mode) THEN
    Ends(Call("teams", "get_members", s, "absent", FALSE,
              <<DbCall("get_team_members", "team_members", s, "absent")>>,
              <<>>, NoErr, "list", DbTeamMembers(s)))
  ELSE ViaApi("teams", "get_members", s, "absent", FALSE, "read",
              "GET", <<"teams", s, "members">>, "absent", "model", "")

\* Users.get_teams.
GetTeams(a) ==
  LET s == GetIdFromArg(a) IN
  IF ExtReadsFromDb(hasDb, mixed_mode) THEN
    Ends(Call("users", "get_teams", s, "absent", FALSE,
              <<DbCall("get_user_teams", "team_members", s, "absent")>>,
              <<>>, NoErr, "list", DbUserTeams(s)))
  ELSE ViaApi("users", "get_teams", s, "absent", FALSE, "read",
              "GET", <<"users", s, "teams">>, "absent", "model", "")

\* Teams and Users derive from ResourceBase and WriteThruAPIResourceMixin
\* only: neither defines list or get, and the attribute lookup fails.
NoSuchMethod(res, op) ==
  Ends(Call(res, op, "", "absent", FALSE, <<>>, <<>>,
            [kind |-> "AttributeError", status |-> 0, detail |-> "no attribute"],
            "raise", {}))

\* ---------------------------------------------------------- prompt versions

\* Mutant: the caller's parent_id is kept.
VersionParent_Passed(parent, passed) == passed

\* Prompts.create_version: data.parent_id = parent.id, whatever the caller
\* passed as parent_id.
VersionParent(parent, passed) == parent.id

\* Prompts.create_version: under the database alone the parent is fetched
\* (None.id raises AttributeError) and the version is created with its id.
CreateVersion(a, key, passed, valid) ==
  LET s == GetIdFromArg(a) IN
  IF ~valid THEN
    Ends(Call("prompts", "create_version", s, "absent", TRUE, <<>>, <<>>,
              Err("PydanticValidationError"), "raise", {}))
  ELSE IF WritesToApi(hasDb, mixed_mode) THEN
    ViaApi("prompts", "create_version", s, "absent", TRUE, "none",
           "POST", <<"prompts", s, "versions">>, "absent", "model", "")
  ELSE
    \E p \in DbGetResults(store["prompts"], s) :
      IF FetchErr(p) # NoErr THEN
        Ends(Call("prompts", "create_version", s, "absent", TRUE,
                  <<DbCall("get", "prompts", s, "absent")>>, <<>>,
                  FetchErr(p), "raise", {}))
      ELSE DbCreate("prompts", "create_version", s,
                    <<DbCall("get", "prompts", s, "absent")>>,
                    key, VersionParent(p, passed))

\* ------------------------------------------- the write-through dispatchers

\* Mutant: the wrapper without its connection check.
MissingApi_Unchecked(api) == FALSE

\* api_write_only: if not self.api, raise ValueError before the method runs.
MissingApi(api) == ~api

\* Mutant: the database is written whenever there is one.
WriteThruToApi_DbFirst(db, mixed) == ~db

\* WriteThruAPIResourceMixin and the Teams and Users methods call self.api
\* whatever connections there are.
WriteThruToApi(db, mixed) == TRUE

\* A method under @api_write_only that builds its request (a model when
\* needsModel, else a dict) and makes one API call.
WriteThrough(res, op, s, needsModel, valid, method, path, expects, okRet) ==
  IF MissingApi(hasApi) THEN
    Ends(Call(res, op, s, "absent", FALSE, <<>>, <<>>,
              Err("ValueError"), "raise", {}))
  ELSE IF needsModel /\ ~valid THEN
    Ends(Call(res, op, s, "absent", TRUE, <<>>, <<>>,
              WrapErr(Err("PydanticValidationError")), "raise", {}))
  ELSE ViaApi(res, op, s, "absent", needsModel, "write",
              method, path, "absent", expects, okRet)

\* Teams.create / Users.create.
WtCreate(res, valid) ==
  IF MissingApi(hasApi) \/ WriteThruToApi(hasDb, mixed_mode)
  THEN WriteThrough(res, "create", "", TRUE, valid,
                    "POST", <<res>>, "model", "")
  ELSE DbCreate(res, "create", "", <<>>, "", 0)

\* Teams.update / Users.update.
WtUpdate(res, a, valid) ==
  IF MissingApi(hasApi) \/ WriteThruToApi(hasDb, mixed_mode)
  THEN WriteThrough(res, "update", GetIdFromArg(a), TRUE, valid,
                    "PUT", <<res, GetIdFromArg(a)>>, "model", "")
  ELSE DbUpdate(res, GetIdFromArg(a), 1)

\* Teams.delete / Users.delete.
WtDelete(res, a) ==
  IF MissingApi(hasApi) \/ WriteThruToApi(hasDb, mixed_mode)
  THEN WriteThrough(res, "delete", GetIdFromArg(a), FALSE, TRUE,
                    "DELETE", <<res, GetIdFromArg(a)>>, "none", "True")
  ELSE DbDelete(res, GetIdFromArg(a))

\* Teams.add_member: api.create(..., Dict).
AddMember(a, u) ==
  WriteThrough("teams", "add_member", GetIdFromArg(a), FALSE, TRUE, "POST",
               <<"teams", GetIdFromArg(a), "members">>, "Dict", "")

\* Teams.remove_member calls self.api.delete with the path alone;
\* APIConnection.delete takes resource_path and resource_id, so the call
\* raises TypeError before any request, and the wrapper re-raises APIError.
RemoveMember(a, u) ==
  IF MissingApi(hasApi) THEN
    Ends(Call("teams", "remove_member", GetIdFromArg(a), "absent", FALSE,
              <<>>, <<>>, Err("ValueError"), "raise", {}))
  ELSE
    Ends(Call("teams", "remove_member", GetIdFromArg(a), "absent", FALSE,
              <<>>, <<>>, WrapErr(Err("TypeError")), "raise", {}))

\* Teams.update_member_role: api.update(path, "", data, Dict) appends "/"
\* and the empty resource_id.
UpdateMemberRole(a, u) ==
  WriteThrough("teams", "update_member_role", GetIdFromArg(a), FALSE, TRUE,
               "PUT",
               <<"teams", GetIdFromArg(a), "members", GetIdFromArg(u), "">>,
               "Dict", "")

\* Users.invite.
Invite ==
  WriteThrough("users", "invite", "", FALSE, TRUE, "POST",
               <<"users", "invite">>, "model", "")

\* Users.activate.
Activate(a) ==
  WriteThrough("users", "activate", GetIdFromArg(a), FALSE, TRUE, "POST",
               <<"users", GetIdFromArg(a), "activate">>, "model", "")

\* Users.deactivate.
Deactivate(a) ==
  WriteThrough("users", "deactivate", GetIdFromArg(a), FALSE, TRUE, "POST",
               <<"users", GetIdFromArg(a), "deactivate">>, "model", "")

\* Users.change_password: api.create(..., Dict), then return True.
ChangePassword(a) ==
  WriteThrough("users", "change_password", GetIdFromArg(a), FALSE, TRUE,
               "POST", <<"users", GetIdFromArg(a), "change-password">>,
               "Dict", "True")

\* A user id passed beside the team id.
UserArgs == {UuidArg(1)}

\* --------------------------------------------------------------------- next

Next ==
  \/ \E res \in Standard, force \in Force : List(res, force)
  \/ \E res \in Standard, a \in IdArgs, force \in Force : Get(res, a, force)
  \/ \E res \in Standard, key \in NewKeys, parent \in ParentArgs, valid \in BOOLEAN :
       /\ (res # "prompts" => parent = 0)
       /\ Create(res, key, parent, valid)
  \/ \E res \in Standard, a \in IdArgs, val \in UpdateVals, valid \in BOOLEAN :
       Update(res, a, val, valid)
  \/ \E res \in Standard, a \in IdArgs : Delete(res, a)
  \/ \E a \in IdArgs : GetPrompts(a)
  \/ \E a \in IdArgs : GetVersions(a)
  \/ \E a \in IdArgs : ListForUser(a)
  \/ \E a \in IdArgs : GetMembers(a)
  \/ \E a \in IdArgs : GetTeams(a)
  \/ \E res \in WriteThru, op \in {"list", "get"} : NoSuchMethod(res, op)
  \/ \E a \in IdArgs, key \in VersionKeys, passed \in ParentArgs, valid \in BOOLEAN :
       CreateVersion(a, key, passed, valid)
  \/ \E res \in WriteThru, valid \in BOOLEAN : WtCreate(res, valid)
  \/ \E res \in WriteThru, a \in IdArgs, valid \in BOOLEAN : WtUpdate(res, a, valid)
  \/ \E res \in WriteThru, a \in IdArgs : WtDelete(res, a)
  \/ \E a \in IdArgs, u \in UserArgs : AddMember(a, u)
  \/ \E a \in IdArgs, u \in UserArgs : RemoveMember(a, u)
  \/ \E a \in IdArgs, u \in UserArgs : UpdateMemberRole(a, u)
  \/ Invite
  \/ \E a \in IdArgs : Activate(a)
  \/ \E a \in IdArgs : Deactivate(a)
  \/ \E a \in IdArgs : ChangePassword(a)

Spec == Init /\ [][Next]_vars

\* --------------------------------------------- the database mode on its own

\* A client of connection type "database" on a database whose tables grow:
\* uuid4 hands out 2..MaxId.
InitDb ==
  /\ hasDb = TRUE
  /\ hasApi = FALSE
  /\ mixed_mode = MixedMode(TRUE, FALSE)
  /\ client = ReadyClient("database")
  /\ dbConn = "open"
  /\ apiConn = "none"
  /\ store = InitStore
  /\ members = InitMembers
  /\ nextId = 2
  /\ last = NoCall

\* id_or_key arguments that reach every row.
DbArgs ==
  {StrArg(Canon(i)) : i \in 1..MaxId} \cup {StrArg(Upper(1)), StrArg("alpha")}

NextDb ==
  \/ List("prompts", "absent")
  \/ \E a \in DbArgs : Get("prompts", a, "absent")
  \/ \E key \in NewKeys, parent \in ParentArgs : Create("prompts", key, parent, TRUE)
  \/ \E a \in DbArgs, val \in Vals : Update("prompts", a, val, TRUE)
  \/ \E a \in DbArgs : Delete("prompts", a)
  \/ \E a \in DbArgs, key \in VersionKeys, passed \in ParentArgs :
       CreateVersion(a, key, passed, TRUE)
  \/ \E a \in DbArgs : GetVersions(a)

SpecDb == InitDb /\ [][NextDb]_vars

\* The database mode with every read operation of the dispatchers beside
\* the writes of Prompts.
StoreArgs == {StrArg(Canon(1)), StrArg("alpha"), UuidArg(2)}

NextStore ==
  \/ \E res \in Standard : List(res, "absent")
  \/ \E a \in StoreArgs : Get("prompts", a, "absent")
  \/ \E a \in StoreArgs : GetPrompts(a)
  \/ \E a \in StoreArgs : GetVersions(a)
  \/ \E a \in StoreArgs : ListForUser(a)
  \/ \E a \in StoreArgs : GetMembers(a)
  \/ \E a \in StoreArgs : GetTeams(a)
  \/ Create("prompts", "alpha", 0, TRUE)
  \/ \E a \in StoreArgs : CreateVersion(a, "alpha", 0, TRUE)
  \/ \E a \in StoreArgs, val \in Vals : Update("prompts", a, val, TRUE)
  \/ \E a \in StoreArgs : Delete("prompts", a)

SpecStore == InitDb /\ [][NextStore]_vars

\* ------------------------------------------- constructing the dispatchers

\* The connections a dispatcher was constructed with, as its call record
\* names them.
CtorArg(db, api) ==
  IF db /\ api THEN "db,api" ELSE IF db THEN "db" ELSE IF api THEN "api" ELSE ""

\* Some dispatcher holds a connection.
Constructed == hasDb \/ hasApi

\* ResourceBase.__init__(db, api), for a dispatcher of each class: ValueError
\* when neither connection is given, else the connections are kept and
\* mixed_mode is set.
NewDispatcher(db, api) ==
  /\ ~Constructed
  /\ IF ~db /\ ~api THEN
       Ends(Call("", "__init__", CtorArg(db, api), "absent", FALSE, <<>>, <<>>,
                 Err("ValueError"), "raise", {}))
     ELSE
       /\ hasDb' = db
       /\ hasApi' = api
       /\ mixed_mode' = MixedMode(db, api)
       /\ last' = Call("", "__init__", CtorArg(db, api), "absent", FALSE,
                       <<>>, <<>>, NoErr, "none", {})
       /\ UNCHANGED <<store, members, nextId, client, dbConn, apiConn>>

\* Connections that exist, and no dispatcher yet.
InitCtor ==
  /\ hasDb = FALSE
  /\ hasApi = FALSE
  /\ mixed_mode = FALSE
  /\ client = NoClient(NoConfig)
  /\ dbConn = "open"
  /\ apiConn = "open"
  /\ store = InitStore
  /\ members = InitMembers
  /\ nextId = MaxId + 1
  /\ last = NoCall

NextCtor ==
  \/ \E db \in BOOLEAN, api \in BOOLEAN : NewDispatcher(db, api)
  \/ Constructed /\ Next

SpecCtor == InitCtor /\ [][NextCtor]_vars

\* ----------------------------------------------------- the client's lifetime

\* What callers pass and what the environment holds.
ClientArgs ==
  {Config(url, key, db) : url \in {"", "https://arg"}, key \in {"", "key-arg"},
                          db \in {"", "db://arg", "garbage"}}
Environments ==
  {Config(url, key, db) : url \in {"", "https://env"}, key \in {"", "key-env"},
                          db \in {"", "db://env"}}

\* __init__ raised: no client, no dispatchers; the API connection made
\* before the database's turn stays as it is.
ConstructFails(type, args, kind, apiMade) ==
  /\ client' = Client("failed", type, args, client.env, NoConfig, {})
  /\ apiConn' = (IF apiMade THEN "open" ELSE "none")
  /\ last' = Call("client", "__init__", type, "absent", FALSE, <<>>, <<>>,
                  Err(kind), "raise", {})
  /\ UNCHANGED <<hasDb, hasApi, mixed_mode, store, members, nextId, dbConn>>

\* PromptLaneClient.__init__: the API connection first, then the database
\* connection, then _init_resources.
Construct(type, args) ==
  LET cfg == Effective(args, client.env) IN
  /\ client.state = "new"
  /\ IF NeedsApi(type) /\ ApiConfigMissing(cfg) THEN
       ConstructFails(type, args, "ValueError", FALSE)
     ELSE IF NeedsDb(type) /\ DbConfigMissing(cfg) THEN
       ConstructFails(type, args, "ValueError", NeedsApi(type))
     ELSE IF NeedsDb(type) /\ ~DbOpens(cfg.db) THEN
       ConstructFails(type, args, "ArgumentError", NeedsApi(type))
     ELSE
       /\ client' = Client("ready", type, args, client.env, Held(type, cfg),
                           Resources)
       /\ apiConn' = (IF NeedsApi(type) THEN "open" ELSE "none")
       /\ dbConn' = (IF NeedsDb(type) THEN "open" ELSE "none")
       /\ hasDb' = NeedsDb(type)
       /\ hasApi' = NeedsApi(type)
       /\ mixed_mode' = MixedMode(NeedsDb(type), NeedsApi(type))
       /\ last' = Call("client", "__init__", type, "absent", FALSE, <<>>, <<>>,
                       NoErr, "none", {})
       /\ UNCHANGED <<store, members, nextId>>

\* Whether DatabaseConnection.close raises is the database's matter.
DbCloseRaises == IF dbConn = "none" THEN {FALSE} ELSE BOOLEAN

\* PromptLaneClient.close: self.db.close() when there is a db attribute, then
\* self.api.close() when there is an api attribute; an exception of the
\* first ends the method.
Close ==
  /\ client.state \in {"ready", "closed"}
  /\ \E raises \in DbCloseRaises :
       IF raises THEN
         /\ last' = Call("client", "close", "", "absent", FALSE, <<>>, <<>>,
                         Err("Exception"), "raise", {})
         /\ UNCHANGED <<hasDb, hasApi, mixed_mode, store, members, nextId,
                        client, dbConn, apiConn>>
       ELSE
         /\ dbConn' = (IF dbConn = "none" THEN "none" ELSE "closed")
         /\ apiConn' = (IF apiConn = "none" THEN "none" ELSE "closed")
         /\ client' = [client EXCEPT !.state = "closed"]
         /\ last' = Call("client", "close", "", "absent", FALSE, <<>>, <<>>,
                         NoErr, "none", {})
         /\ UNCHANGED <<hasDb, hasApi, mixed_mode, store, members, nextId>>

\* No client yet, and an environment.
InitClient ==
  /\ \E env \in Environments : client = NoClient(env)
  /\ hasDb = FALSE
  /\ hasApi = FALSE
  /\ mixed_mode = FALSE
  /\ dbConn = "none"
  /\ apiConn = "none"
  /\ store = InitStore
  /\ members = InitMembers
  /\ nextId = MaxId + 1
  /\ last = NoCall

NextClient ==
  \/ \E type \in ConnectionTypes, args \in ClientArgs : Construct(type, args)
  \/ client.state = "ready" /\ List("projects", "absent")
  \/ client.state = "ready" /\ WtDelete("teams", UuidArg(1))
  \/ Close

SpecClient == InitClient /\ [][NextClient]_vars

\* ------------------------------------------------ one request, by attempts

\* The methods APIConnection.list, get, create, update and delete send.
Methods == {"GET", "POST", "PUT", "DELETE"}

\* APIConnection.request is entered: no attempt made yet.
HttpSend(method) ==
  /\ last.ret # "pending"
  /\ Ends(Call("http", "request", method, "absent", FALSE, <<>>, <<>>,
               NoErr, "pending", {}))

\* One attempt of the session and its answer. An answer that calls for a
\* retry (or no answer at all) is followed by another attempt while retries
\* are left, and ends the request with the session's exception when none
\* is; any other answer goes to _handle_response.
HttpAttempt(resp) ==
  LET status == resp[1]
      body == resp[2]
      api == Append(last.api, ApiCall(last.arg, <<"projects">>, "absent",
                                      "model", status, body))
      retry == status = 0 \/ IsRetry(last.arg, status)
      r == IF retry THEN [err |-> Exhausted(status), ret |-> "raise"]
           ELSE HandleResponse(status, body, "model")
  IN
  /\ last.res = "http" /\ last.ret = "pending"
  /\ IF retry /\ Len(last.api) < MaxRetries
     THEN Ends([last EXCEPT !.api = api])
     ELSE Ends([last EXCEPT !.api = api, !.err = r.err, !.ret = r.ret])

\* A client of connection type "api".
InitHttp ==
  /\ hasDb = FALSE
  /\ hasApi = TRUE
  /\ mixed_mode = MixedMode(FALSE, TRUE)
  /\ client = ReadyClient("api")
  /\ dbConn = "none"
  /\ apiConn = "open"
  /\ store = InitStore
  /\ members = InitMembers
  /\ nextId = MaxId + 1
  /\ last = NoCall

NextHttp ==
  \/ \E method \in Methods : HttpSend(method)
  \/ \E resp \in Responses : HttpAttempt(resp)

SpecHttp == InitHttp /\ [][NextHttp]_vars

\* ------------------------------------------------------------------- claims

CrudReads == {"list", "get"}
CrudWrites == {"create", "update", "delete"}
ExtReads ==
  {"get_prompts", "get_versions", "get_members", "get_teams", "list_for_user"}
WriteThruOps ==
  CrudWrites \cup {"add_member", "remove_member", "update_member_role",
                   "invite", "activate", "deactivate", "change_password"}
DbWriteFns ==
  {"create", "update", "delete", "add_team_member", "remove_team_member",
   "invite_user"}

UsedDb(c) == c.db # <<>>
UsedApi(c) == c.api # <<>>
IsMixed == hasDb /\ hasApi
IsDbOnly == hasDb /\ ~hasApi

\* C1: in mixed mode, on Projects, Prompts and Activities, list and get
\* (force_api not set) invoke the database and never the API; create, update
\* and delete called with well-formed data invoke the API and never the
\* database.
C1_MixedStandardRouting ==
  (IsMixed /\ last.res \in Standard) =>
    /\ (last.op \in CrudReads /\ last.force # "true") =>
         (UsedDb(last) /\ ~UsedApi(last))
    /\ (last.op \in CrudWrites /\ last.err.kind # "PydanticValidationError") =>
         (UsedApi(last) /\ ~UsedDb(last))

\* C2: with only a database connection, every write method of Teams and Users
\* raises ValueError before a request model is built and before any backend
\* is called, and the database is as it was.
C2_DbOnlyWriteThruFails ==
  [][(IsDbOnly /\ last'.res \in WriteThru /\ last'.op \in WriteThruOps) =>
       /\ last'.err.kind = "ValueError"
       /\ ~last'.built
       /\ ~UsedDb(last') /\ ~UsedApi(last')
       /\ store' = store /\ members' = members]_vars

C2_Witness ==
  /\ IsDbOnly
  /\ last.res = "users" /\ last.op = "change_password"
  /\ last.err.kind = "ValueError"

\* C3: in every mode, no call of a Teams or Users method invokes a database
\* write method; a write that reaches a backend reaches the API; and the
\* teams, users and team_members tables stay as they were.
C3_WriteThruNeverWritesDb ==
  /\ last.res \in WriteThru =>
       /\ \A i \in DOMAIN last.db : last.db[i].fn \notin DbWriteFns
       /\ last.op \in WriteThruOps => (~UsedDb(last) /\
                                        (last.err.kind = "ok" => UsedApi(last)))
  /\ \A res \in WriteThru : store[res] = InitStore[res]
  /\ members = InitMembers

C3_Witness ==
  /\ IsMixed
  /\ last.res = "teams" /\ last.op = "add_member"
  /\ UsedApi(last) /\ ~UsedDb(last)

\* C4: in mixed mode every read of every dispatcher (list, get and the read
\* extensions) is served by the database and not the API, and every write
\* that reaches a backend is served by the API and not the database.
C4_MixedReadsDbWritesApi ==
  IsMixed =>
    /\ (last.op \in CrudReads \cup ExtReads /\ last.force # "true") =>
         (UsedDb(last) /\ ~UsedApi(last))
    /\ (last.op \in WriteThruOps \cup {"create_version"}) =>
         (~UsedDb(last) /\ (last.err.kind = "ok" => UsedApi(last)))

\* C5 as stated: list and get of a standard dispatcher use the database
\* exactly when there is a database connection and force_api is not set, and
\* the API in every other case.
C5_Original ==
  (last.res \in Standard /\ last.op \in CrudReads) =>
    /\ UsedDb(last) <=> (hasDb /\ last.force # "true")
    /\ UsedApi(last) <=> ~(hasDb /\ last.force # "true")

\* C5 as amended: list and get of a standard dispatcher use the database
\* exactly when there is a database connection and not both an API connection
\* and force_api=True; in every other case they use the API. With the
\* database alone force_api changes nothing.
C5_ReadRouting ==
  (last.res \in Standard /\ last.op \in CrudReads) =>
    LET viaDb == hasDb /\ ~(hasApi /\ last.force = "true") IN
    /\ UsedDb(last) <=> viaDb
    /\ UsedApi(last) <=> ~viaDb

C5_Witness ==
  /\ IsDbOnly
  /\ last.res \in Standard /\ last.op = "list" /\ last.force = "true"
  /\ UsedDb(last) /\ ~UsedApi(last)

\* C6: list is available on every dispatcher, and in database mode get of the
\* identifier of a listed entity returns an entity with that identifier.
C6_ListThenGet ==
  /\ last.op = "list" =>
       ~(last.err.kind = "AttributeError" /\ last.err.detail = "no attribute")
  /\ IsDbOnly =>
       \A res \in Resources : \A e \in DbList(store[res], NoFilter) :
         \A r \in DbGetResults(store[res], Canon(e.id)) : r.id = e.id

\* C7: the database backend's get, update and delete select the rows whose id
\* is the identifier the argument denotes when it is well formed, and the
\* rows whose key is the argument when it is not; a well-formed identifier
\* with no row selects nothing, whatever keys the rows have.
C7_IdentifierThenKey ==
  [][(last'.op \in {"get", "update", "delete"} /\ UsedDb(last')
      /\ last'.err.kind # "AttributeError") =>
       LET c == last'
           rows == store[c.res]
           sel == IF ParseUUID(c.arg) # 0
                  THEN {r \in rows : r.id = ParseUUID(c.arg)}
                  ELSE {r \in rows : r.key = c.arg}
       IN
       /\ c.op = "get" =>
            /\ store' = store
            /\ IF sel = {} THEN c.ret = "None" /\ c.rows = {}
               ELSE c.ret = "entity" /\ c.rows \subseteq sel /\ c.rows # {}
       /\ c.op = "delete" =>
            /\ store'[c.res] = rows \ sel
            /\ c.ret = (IF sel = {} THEN "False" ELSE "True")
       /\ c.op = "update" =>
            /\ rows \ sel \subseteq store'[c.res]
            /\ \E v \in Vals :
                 store'[c.res] = (rows \ sel) \cup
                                 {[r EXCEPT !.val = v] : r \in sel}
            /\ sel = {} <=> c.err.kind = "TypeError"]_vars

C7_Witness ==
  /\ last.op = "get" /\ last.ret = "None" /\ UsedDb(last)
  /\ ParseUUID(last.arg) # 0
  /\ \E r \in store[last.res] : r.key = last.arg

\* C8: in database mode create_version addressed to a prompt p without a
\* parent adds exactly one prompt, with a new identifier and parent_id p.id,
\* returns it, and changes no other row.
C8_VersionOfRoot ==
  [][(IsDbOnly /\ last'.op = "create_version" /\ last'.err.kind = "ok") =>
       LET rows == store["prompts"]
           new == store'["prompts"] \ rows
           sel == IF ParseUUID(last'.arg) # 0
                  THEN {r \in rows : r.id = ParseUUID(last'.arg)}
                  ELSE {r \in rows : r.key = last'.arg}
       IN
       /\ rows \subseteq store'["prompts"]
       /\ Cardinality(new) = 1
       /\ last'.rows = new
       /\ \A n \in new : \A r \in rows : r.id # n.id
       /\ \A p \in sel : (sel = {p} /\ p.parent_id = 0) =>
            \A n \in new : n.parent_id = p.id]_vars

C8_Witness ==
  /\ IsDbOnly /\ last.op = "create_version" /\ last.err.kind = "ok"
  /\ \E n \in last.rows : \E p \in store["prompts"] :
       /\ p.id = 2 /\ p.parent_id = 0
       /\ n.parent_id = 2 /\ last.arg = Canon(2)

\* The root of a prompt's lineage: the prompt reached by following parent_id
\* until a prompt without a parent (or without a stored parent).
RECURSIVE RootOf(_, _, _)
RootOf(rows, r, fuel) ==
  IF r.parent_id = 0 \/ fuel = 0 \/ ~(\E q \in rows : q.id = r.parent_id)
  THEN r.id
  ELSE RootOf(rows, CHOOSE q \in rows : q.id = r.parent_id, fuel - 1)
Lineage(rows, r) ==
  {x \in rows : RootOf(rows, x, Cardinality(rows)) =
                RootOf(rows, r, Cardinality(rows))}

\* C9: in database mode get_versions called on a member of a lineage returns
\* all the prompts of that lineage, the root among them.
C9_VersionsAreLineage ==
  (IsDbOnly /\ last.op = "get_versions" /\ last.err.kind = "ok") =>
    \E m \in Selected(store["prompts"], last.arg) :
      last.rows = Lineage(store["prompts"], m)

\* C10: the HTTP backend maps a response to an error by its status alone:
\* 401 and 403 to AuthenticationError, 404 to NotFoundError, 422 to
\* ValidationError, 429 to RateLimitError, every other error status (4xx,
\* 5xx) to APIError carrying the status, and a 2xx response to none of them.
\* (The statuses below 400 that are not 2xx are left aside here.)
ApiErrorKinds ==
  {"APIError", "AuthenticationError", "NotFoundError", "ValidationError",
   "RateLimitError"}
C10_StatusDecidesError ==
  (last.res \in Standard /\ UsedApi(last) /\ last.api[1].status # 0) =>
    LET st == last.api[1].status IN
    IF st >= 200 /\ st < 300 THEN last.err.kind \notin ApiErrorKinds
    ELSE IF st < 400 THEN TRUE
    ELSE IF st \in {401, 403} THEN last.err.kind = "AuthenticationError"
    ELSE IF st = 404 THEN last.err.kind = "NotFoundError"
    ELSE IF st = 422 THEN last.err.kind = "ValidationError"
    ELSE IF st = 429 THEN last.err.kind = "RateLimitError"
    ELSE last.err.kind = "APIError" /\ last.err.status = st

\* What the wrapped method's request ended with, before the wrapper.
Inner(c) == Request(c.api[1].status, c.api[1].body, c.api[1].expects)
\* The error the API layer's status mapping has for the answer.
Mapped(c) == HandleResponse(c.api[1].status, c.api[1].body, c.api[1].expects)
IsWriteThruCall(c) == c.res \in WriteThru /\ c.op \in WriteThruOps

\* C11: a write-through method of Teams or Users whose request was answered
\* with an error of the API layer (authentication, not-found, validation,
\* rate-limit or generic API failure) raises an error of that same kind.
C11_SameKindReraised ==
  (IsWriteThruCall(last) /\ UsedApi(last) /\ last.api[1].status # 0) =>
    (Mapped(last).err.kind \in ApiErrorKinds =>
       last.err.kind = Mapped(last).err.kind)

C13_NoMatchNoException ==
  (IsDbOnly /\ last.op \in {"get", "update", "delete"} /\ UsedDb(last)) =>
    /\ last.err.kind = "ok"
    /\ (last.op \in {"get", "update"} /\ last.rows = {}) => last.ret = "None"

\* C14: in database mode create returns a row with an identifier no stored
\* row had, and the row create or update returns is the stored one: get by
\* its identifier, in the state the call left, returns exactly that row.
C14_ReturnedIsCommitted ==
  [][(IsDbOnly /\ last'.op \in {"create", "update"} /\ last'.err.kind = "ok") =>
       /\ last'.rows # {}
       /\ \A e \in last'.rows :
            DbGetResults(store'[last'.res], Canon(e.id)) = {e}
       /\ last'.op = "create" =>
            \A e \in last'.rows : \A r \in store[last'.res] : r.id # e.id]_vars

C14_Witness ==
  /\ IsDbOnly /\ last.op = "update" /\ last.err.kind = "ok"
  /\ \E e \in last.rows : e.id = 2 /\ e.val = 1

\* C15: in database mode a create, update, delete or create_version call
\* that raises leaves every table as it was, and the rows a call returns
\* are in the store when it returns.
C15_AllOrNothing ==
  [][(IsDbOnly /\ last'.op \in CrudWrites \cup {"create_version"}) =>
       /\ last'.err.kind # "ok" => (store' = store /\ members' = members)
       /\ last'.err.kind = "ok" => last'.rows \subseteq store'[last'.res]]_vars

Ids(rows) == {r.id : r \in rows}

\* C16: in database mode no two stored rows of a table have the same
\* identifier, and update keeps identifiers: the table has the identifiers
\* it had, and the row update returns has the identifier of a row the
\* argument selected.
C16_IdentifiersUniqueAndKept ==
  [][IsDbOnly =>
       /\ \A res \in Resources :
            \A r1, r2 \in store'[res] : r1.id = r2.id => r1 = r2
       /\ (last'.op = "update" /\ UsedDb(last')) =>
            /\ Ids(store'[last'.res]) = Ids(store[last'.res])
            /\ Cardinality(store'[last'.res]) = Cardinality(store[last'.res])
            /\ \A e \in last'.rows :
                 e.id \in Ids(Selected(store[last'.res], last'.arg))]_vars

C16_Witness ==
  /\ IsDbOnly /\ last.op = "update" /\ last.err.kind = "ok"
  /\ Cardinality(store["prompts"]) = MaxId
  /\ \E e \in last.rows : e.id = MaxId

\* C17: in database mode every stored prompt with a parent_id has its parent
\* in the store.
C17_ParentsExist ==
  IsDbOnly =>
    \A r \in store["prompts"] :
      r.parent_id # 0 => \E q \in store["prompts"] : q.id = r.parent_id

\* C18: constructing a dispatcher raises exactly when neither connection is
\* given, and then no dispatcher holds a connection; otherwise the dispatcher
\* holds the connections given, mixed_mode is true exactly when both were,
\* and no later operation changes mixed_mode or the connections held.
C18_DispatcherConstruction ==
  [][/\ last'.op = "__init__" =>
          /\ last'.err.kind # "ok" <=> last'.arg = ""
          /\ last'.err.kind # "ok" =>
               (last'.err.kind = "ValueError" /\ ~Constructed')
          /\ last'.err.kind = "ok" =>
               /\ last'.arg = CtorArg(hasDb', hasApi')
               /\ mixed_mode' <=> last'.arg = "db,api"
     /\ Constructed =>
          (mixed_mode' = mixed_mode /\ hasDb' = hasDb /\ hasApi' = hasApi)
     /\ Constructed' => (mixed_mode' <=> (hasDb' /\ hasApi'))]_vars

C18_Witness ==
  /\ last.op = "__init__" /\ last.arg = "" /\ last.err.kind = "ValueError"
  /\ ~Constructed

\* The configuration the selected type requires is present, in the arguments
\* or in the environment.
Present(c) ==
  /\ NeedsApi(c.connection_type) =>
       /\ c.args.base_url # "" \/ c.env.base_url # ""
       /\ c.args.api_key # "" \/ c.env.api_key # ""
  /\ NeedsDb(c.connection_type) => (c.args.db # "" \/ c.env.db # "")

\* The value a connection is given: the argument when there is one.
Preferred(arg, env) == IF arg # "" THEN arg ELSE env

\* What a client that was constructed holds.
HoldsItsMode(c) ==
  /\ c.resources = Resources
  /\ hasDb = NeedsDb(c.connection_type) /\ hasApi = NeedsApi(c.connection_type)
  /\ dbConn # "none" <=> NeedsDb(c.connection_type)
  /\ apiConn # "none" <=> NeedsApi(c.connection_type)
  /\ NeedsApi(c.connection_type) =>
       /\ c.cfg.base_url = Preferred(c.args.base_url, c.env.base_url)
       /\ c.cfg.api_key = Preferred(c.args.api_key, c.env.api_key)
  /\ NeedsDb(c.connection_type) => c.cfg.db = Preferred(c.args.db, c.env.db)

\* C19 as stated: client construction succeeds exactly when the configuration
\* its type requires is present in the arguments or the environment.
C19_Original ==
  client.state # "new" => (client.state # "failed" <=> Present(client))

\* C19 as amended: client construction succeeds exactly when the
\* configuration its type requires is present, in the arguments or the
\* environment, and the database connection can be made from the connection
\* string; the client then holds the connections of its type, made from the
\* argument where one was given and from the environment otherwise, and five
\* dispatchers bound to them. Missing configuration raises ValueError; a
\* connection string no database connection can be made from raises the
\* database layer's error.
C19_ClientConstruction ==
  client.state # "new" =>
    LET usable == NeedsDb(client.connection_type) =>
                    DbOpens(Preferred(client.args.db, client.env.db)) IN
    /\ client.state # "failed" <=> (Present(client) /\ usable)
    /\ client.state # "failed" => HoldsItsMode(client)
    /\ client.state = "failed" =>
         /\ ~Constructed /\ client.resources = {}
         /\ last.err.kind = (IF Present(client) THEN "ArgumentError"
                              ELSE "ValueError")

C19_Witness ==
  /\ client.state = "ready" /\ client.connection_type = "mixed"
  /\ client.args.base_url # "" /\ client.env.base_url # ""
  /\ client.args.api_key = "" /\ client.cfg.api_key = "key-env"
  /\ client.cfg.base_url = "https://arg"

\* C20: after close() every connection the client made is released.
C20_CloseReleasesAll ==
  (last.res = "client" /\ last.op = "close") =>
    (dbConn \in {"none", "closed"} /\ apiConn \in {"none", "closed"})

\* C21: a request makes at most MaxRetries + 1 attempts; an attempt that was
\* answered is followed by another only when its status is 429, 500, 502,
\* 503 or 504; and a request answered with 429 on every attempt ends with
\* RateLimitError.
C21_RetriesBoundedAndReported ==
  last.res = "http" =>
    /\ Len(last.api) <= MaxRetries + 1
    /\ \A i \in 1..(Len(last.api) - 1) :
         last.api[i].status # 0 => last.api[i].status \in StatusForcelist
    /\ (last.ret # "pending" /\ last.api # <<>>
        /\ \A i \in 1..Len(last.api) : last.api[i].status = 429) =>
         last.err.kind = "RateLimitError"

\* A response with a success status.
Is2xx(status) == status >= 200 /\ status < 300

\* C22: a write-through method of Teams or Users whose request the API
\* answered with a success status and a JSON object ends without an error:
\* add_member and update_member_role return the membership the body holds,
\* change_password returns True.
C22_AppliedWriteReported ==
  (IsWriteThruCall(last) /\ UsedApi(last) /\ Is2xx(last.api[1].status)
   /\ IsJsonObject(last.api[1].body)) =>
    /\ last.err.kind = "ok"
    /\ last.op \in {"add_member", "update_member_role"} => last.ret = "entity"
    /\ last.op = "change_password" => last.ret = "True"

\* C23: a delete that went to the HTTP backend and was answered with a 2xx
\* status returns True whatever the body, an empty one included; it raises
\* only when the status is not 2xx.
C23_DeleteTrueOn2xx ==
  (last.op = "delete" /\ UsedApi(last) /\ Is2xx(last.api[1].status)) =>
    (last.err.kind = "ok" /\ last.ret = "True")

\* The path segments a request's URL has after the base URL.
UrlSegments(c) == Tail(BuildUrl(c.api[1].path))

\* C24: the URL of every request a dispatcher operation makes is
\* baseURL/apiVersion/resourceType[/id[/subresource[/subId]]]: the version
\* once, then the resource type as a segment of its own (no filter inside
\* it), at most three segments after it and none of them empty; and
\* Teams.remove_member, with an API connection, makes such a request.
C24_UrlShape ==
  /\ UsedApi(last) =>
       LET u == UrlSegments(last) IN
       /\ Len(u) >= 2 /\ Len(u) <= 5
       /\ Cardinality({i \in 1..Len(u) : u[i] = ApiVersion}) = 1
       /\ u[1] = ApiVersion
       /\ u[2] \in Resources
       /\ \A i \in 1..Len(u) : u[i] # ""
  /\ (last.op = "remove_member" /\ hasApi) => UsedApi(last)

\* C26: list and get of a standard dispatcher hand force_api to no backend:
\* the request the API receives carries no query parameter for it, so that
\* list(force_api=True) in mixed mode sends what list() sends in API mode.
C26_ForceApiNotForwarded ==
  (last.res \in Standard /\ last.op \in CrudReads) =>
    \A i \in 1..Len(last.api) : last.api[i].params = "absent"

\* C27: a construction that failed on missing configuration leaves no
\* backend connection open.
C27_FailedConstructionHoldsNothing ==
  (client.state = "failed" /\ last.op = "__init__"
   /\ last.err.kind = "ValueError") =>
    (apiConn # "open" /\ dbConn # "open")

\* C28: in database mode every stored prompt that has a key is what get
\* returns for that key: get(k) returns a row whose key is k, also when k
\* has the text of an identifier.
C28_KeyRetrieves ==
  IsDbOnly =>
    \A e \in store["prompts"] :
      e.key # "" =>
        \A r \in DbGetResults(store["prompts"], e.key) : r.key = e.key

\* C29: in database mode one update or delete call changes or removes at
\* most one prompt, also when it is addressed by a key that versions share
\* with their parent.
C29_OneCallOneEntity ==
  [][(IsDbOnly /\ last'.res = "prompts" /\ last'.op \in {"update", "delete"}) =>
       Cardinality(store["prompts"] \ store'["prompts"]) <= 1]_vars

\* C30: whatever the HTTP backend raises for a response with an error status
\* is an APIError or a subclass of it, whatever the body: a JSON object,
\* another JSON value, or text that is not JSON. (The statuses the retry
\* strategy consumes are the matter of C21 and left aside here.)
C30_ErrorsAreApiErrors ==
  (last.res \in Standard /\ UsedApi(last)
   /\ RaisesForStatus(last.api[1].status)
   /\ last.api[1].status \notin StatusForcelist) =>
    last.err.kind \in ApiErrorKinds

\* C25: in database mode list, get, get_prompts, get_versions, get_members,
\* get_teams and list_for_user leave every table and the memberships as
\* they were, and create, create_version and update remove no entity: every
\* identifier a table held before the call it holds after it.
C25_ReadsKeepWritesOnlyAdd ==
  [][IsDbOnly =>
       /\ last'.op \in CrudReads \cup ExtReads =>
            (store' = store /\ members' = members)
       /\ last'.op \in {"create", "create_version", "update"} =>
            \A res \in Resources : Ids(store[res]) \subseteq Ids(store'[res])]_vars
C25_Witness ==
  /\ IsDbOnly
  /\ last.op \in ExtReads /\ last.err.kind = "ok"
  /\ Cardinality(store["prompts"]) >= 2
  /\ \E r \in store["prompts"] : r.val # 0

====
